---- MODULE Spec2Model ----
(***************************************************************************)
(* Model of the event_study package: column normaliser (config.py),        *)
(* returns builder (mk_rets.py), event builder (mk_events.py), CAR engine  *)
(* (mk_cars.py), hypothesis tester (test_hypo.py) and main (main.py).      *)
(*                                                                         *)
(* Representation.  A Python string is a sequence of one-character         *)
(* strings.  A float is a record [nan, v]: NaN is [nan |-> TRUE, v |-> 0], *)
(* a number n (in hundredths) is [nan |-> FALSE, v |-> n].  A Timestamp is *)
(* [date |-> <<y, m, d>>, t |-> time of day].  A data frame is a set or a  *)
(* sequence of row records.  pd.read_csv is the environment: it delivers   *)
(* the parsed table row by row (the Read actions).                         *)
(***************************************************************************)
EXTENDS Integers, Sequences, FiniteSets, TLC

VARIABLES
    pc,         \* position of the running function
    columns,    \* df.columns handed to standardise_colnames (distinct labels)
    renamed,    \* label of each column after the first standardise_colnames
    renamed2,   \* label of each column after the second standardise_colnames
    rec_rows,   \* rows of <rec csv> as read by mk_event_df
    ev_last,    \* mk_event_df: `df` after groups.last().reset_index()
    ev_res,     \* mk_event_df: the returned table, or the exception raised
    ser,        \* expand_dates: the event row `ser`
    window,     \* expand_dates: the parameter `window`
    exp_out,    \* expand_dates: the returned data frame
    ret_df,     \* mk_cars_df: the caller's ret_df
    event_df,   \* mk_cars_df: the caller's event_df
    cars_df,    \* mk_cars_df: the returned data frame
    car_out,    \* calc_car: the returned value
    prc_rows,   \* rows of <prc csv> as read by mk_ret_df
    ff_rows,    \* rows of the market factor csv as read by mk_ret_df
    rets_out,   \* mk_ret_df: the returned data frame
    event_cars, \* calc_tstats: the argument `event_cars`
    tstat_out,  \* calc_tstats: the returned data frame `res`
    update_csv, \* main: the argument `update_csv`
    log,        \* main: the stages called so far, in call order
    failed      \* main: the stage whose exception ended the run, or ""

vars == <<pc, columns, renamed, renamed2, rec_rows, ev_last, ev_res, ser,
          window, exp_out, ret_df, event_df, cars_df, car_out, prc_rows,
          ff_rows, rets_out, event_cars, tstat_out, update_csv, log,
          failed>>

colVars == <<columns, renamed, renamed2>>
evVars == <<rec_rows, ev_last, ev_res>>
expVars == <<ser, window, exp_out>>
carVars == <<ret_df, event_df, cars_df, car_out>>
retVars == <<prc_rows, ff_rows, rets_out>>
tsVars == <<event_cars, tstat_out>>
mainVars == <<update_csv, log, failed>>

\* The value of a variable that holds nothing yet.
None == <<>>

ColIdle == columns = {} /\ renamed = None /\ renamed2 = None
EvIdle == rec_rows = {} /\ ev_last = None /\ ev_res = None
ExpIdle == ser = None /\ window = 0 /\ exp_out = None
CarIdle ==
    ret_df = {} /\ event_df = None /\ cars_df = None /\ car_out = None
RetIdle == prc_rows = {} /\ ff_rows = {} /\ rets_out = None
TsIdle == event_cars = None /\ tstat_out = None
MainIdle == update_csv = "False" /\ log = None /\ failed = ""

-----------------------------------------------------------------------------
(* Strings *)

Uppers == <<"A", "B", "C", "D", "E", "F", "G", "H", "I", "J", "K", "L", "M",
            "N", "O", "P", "Q", "R", "S", "T", "U", "V", "W", "X", "Y", "Z">>
Lowers == <<"a", "b", "c", "d", "e", "f", "g", "h", "i", "j", "k", "l", "m",
            "n", "o", "p", "q", "r", "s", "t", "u", "v", "w", "x", "y", "z">>
Digits == <<"0", "1", "2", "3", "4", "5", "6", "7", "8", "9">>

\* The characters of the model in code point order.
Ascii == <<" ", "-">> \o Digits \o Uppers \o <<"_">> \o Lowers

Code(c) == CHOOSE i \in 1..Len(Ascii) : Ascii[i] = c

\* s < t as Python compares strings: code point by code point.
RECURSIVE StrLess(_, _)
StrLess(s, t) ==
    IF t = <<>> THEN FALSE
    ELSE IF s = <<>> THEN TRUE
    ELSE IF Head(s) = Head(t) THEN StrLess(Tail(s), Tail(t))
    ELSE Code(Head(s)) < Code(Head(t))

LowerCh(c) ==
    IF \E i \in 1..Len(Uppers) : Uppers[i] = c
    THEN Lowers[CHOOSE i \in 1..Len(Uppers) : Uppers[i] = c]
    ELSE c

UpperCh(c) ==
    IF \E i \in 1..Len(Lowers) : Lowers[i] = c
    THEN Uppers[CHOOSE i \in 1..Len(Lowers) : Lowers[i] = c]
    ELSE c

\* str.lower(), str.upper()
StrLower(s) == [i \in 1..Len(s) |-> LowerCh(s[i])]
StrUpper(s) == [i \in 1..Len(s) |-> UpperCh(s[i])]

\* str.replace(' ', '_')
ReplaceSpaces(s) == [i \in 1..Len(s) |-> IF s[i] = " " THEN "_" ELSE s[i]]

\* `sub in s`
Contains(s, sub) ==
    \E i \in 0..(Len(s) - Len(sub)) :
        \A j \in 1..Len(sub) : s[i + j] = sub[j]

-----------------------------------------------------------------------------
(* config.standardise_colnames *)

MaxCols == 2
MaxLabelLen == 2

LabelChars == {"A", "a", " ", "_"}
Labels == UNION {[1..n -> LabelChars] : n \in 1..MaxLabelLen}

\* colname.lower().replace(' ', '_')
NewName(colname) == ReplaceSpaces(StrLower(colname))

ParseNameKeepsCase(colname, cols) ==
    LET new_name == NewName(colname)
    IN  IF new_name = colname THEN colname
        ELSE IF new_name \in cols THEN <<"_">> \o colname
        ELSE new_name

\* _parse_name(colname), with `cols` the set of labels of the data frame
ParseName(colname, cols) ==
    LET new_name == NewName(colname)
    IN  IF new_name = colname THEN colname
        ELSE IF new_name \in cols THEN <<"_">> \o new_name
        ELSE new_name

\* pd.read_csv delivers one more column label
ReadColumn ==
    /\ pc = "read"
    /\ Cardinality(columns) < MaxCols
    /\ \E c \in Labels \ columns : columns' = columns \cup {c}
    /\ UNCHANGED <<pc, renamed, renamed2>>

\* df.rename(columns=_parse_name) on the table as read
Standardise ==
    /\ pc = "read"
    /\ columns # {}
    /\ renamed' = [c \in columns |-> ParseName(c, columns)]
    /\ pc' = "once"
    /\ UNCHANGED <<columns, renamed2>>

\* standardise_colnames applied to its own output: cols is now the set of
\* the renamed labels
Restandardise ==
    /\ pc = "once"
    /\ LET cols == {renamed[c] : c \in columns}
       IN  renamed2' = [c \in columns |-> ParseName(renamed[c], cols)]
    /\ pc' = "twice"
    /\ UNCHANGED <<columns, renamed>>

InitCols ==
    /\ pc = "read"
    /\ ColIdle /\ EvIdle /\ ExpIdle /\ CarIdle /\ RetIdle /\ TsIdle
    /\ MainIdle

NextCols ==
    \/ ReadColumn
           /\ UNCHANGED <<evVars, expVars, carVars, retVars, tsVars, mainVars>>
    \/ Standardise
           /\ UNCHANGED <<evVars, expVars, carVars, retVars, tsVars, mainVars>>
    \/ Restandardise
           /\ UNCHANGED <<evVars, expVars, carVars, retVars, tsVars, mainVars>>

SpecCols == InitCols /\ [][NextCols]_vars

\* The columns whose labels normalise to the same name as c's.
Colliding(c) == {d \in columns : NewName(d) = NewName(c)}

\* C1: distinct input labels give distinct output labels, and of two or more
\* columns that normalise to the same name exactly one carries the '_' prefix.
C1_NoDuplicateLabels ==
    pc \in {"once", "twice"} =>
        /\ \A c, d \in columns : c # d => renamed[c] # renamed[d]
        /\ \A c \in columns :
               Cardinality(Colliding(c)) >= 2 =>
                   Cardinality({d \in Colliding(c) :
                                    renamed[d] = <<"_">> \o NewName(d)}) = 1

\* C2: standardise_colnames applied to its own output renames nothing.
C2_Idempotent == pc = "twice" => renamed2 = renamed

\* A second application whose first application added a '_' prefix.
C2_Witness ==
    /\ pc = "twice"
    /\ \E c \in columns : renamed[c] = <<"_">> \o NewName(c) /\ renamed[c] # c

-----------------------------------------------------------------------------
(* Dates *)

\* index.strftime('%Y-%m-%d') of a Timestamp: the time of day is dropped and
\* the fields are zero padded.
StrfDate(ts) ==
    LET y == ts.date[1]
        m == ts.date[2]
        d == ts.date[3]
    IN  << Digits[((y \div 1000) % 10) + 1], Digits[((y \div 100) % 10) + 1],
           Digits[((y \div 10) % 10) + 1], Digits[(y % 10) + 1], "-",
           Digits[(m \div 10) + 1], Digits[(m % 10) + 1], "-",
           Digits[(d \div 10) + 1], Digits[(d % 10) + 1] >>

DigitVal(c) == (CHOOSE i \in 1..Len(Digits) : Digits[i] = c) - 1

\* pd.to_datetime of a 'YYYY-MM-DD' string: the calendar date <<y, m, d>>
ToDatetime(s) ==
    << (1000 * DigitVal(s[1])) + (100 * DigitVal(s[2]))
           + (10 * DigitVal(s[3])) + DigitVal(s[4]),
       (10 * DigitVal(s[6])) + DigitVal(s[7]),
       (10 * DigitVal(s[9])) + DigitVal(s[10]) >>

\* a < b for calendar dates
DateLess(a, b) ==
    \/ a[1] < b[1]
    \/ a[1] = b[1] /\ a[2] < b[2]
    \/ a[1] = b[1] /\ a[2] = b[2] /\ a[3] < b[3]

\* a < b for Timestamps
TsLess(a, b) == DateLess(a.date, b.date) \/ (a.date = b.date /\ a.t < b.t)

-----------------------------------------------------------------------------
(* mk_events.mk_event_df *)

MaxRecRows == 3

Up == <<"u", "p">>
Down == <<"d", "o", "w", "n">>

\* The timestamps, firms and actions mk_event_df is tried on
RecStamps == {[date |-> <<2012, 2, 16>>, t |-> 9],
              [date |-> <<2012, 2, 16>>, t |-> 16],
              [date |-> <<2012, 10, 3>>, t |-> 9]}
RecFirms == {<<"b">>, <<"B">>, <<"A">>}
RecActions == {Up, Down, <<"m", "a", "i", "n">>, <<"u", "p", "s">>}
RecRows == [ts : RecStamps, firm : RecFirms, action : RecActions]

\* The (event_date, firm) key of a raw row: steps 2 of mk_event_df
EventKey(r) == <<StrfDate(r.ts), StrUpper(r.firm)>>

\* Order of the group keys, as groupby sorts them
KeyLess(a, b) == StrLess(a[1], b[1]) \/ (a[1] = b[1] /\ StrLess(a[2], b[2]))

\* The keys of S in ascending order
RECURSIVE SortKeys(_)
SortKeys(S) ==
    IF S = {} THEN <<>>
    ELSE LET k == CHOOSE x \in S : \A y \in S \ {x} : KeyLess(x, y)
         IN  <<k>> \o SortKeys(S \ {k})

\* The rows of group k
Group(rows, k) == {r \in rows : EventKey(r) = k}

FirstOfGroup(rows, k) ==
    {r \in Group(rows, k) : \A q \in Group(rows, k) : ~TsLess(q.ts, r.ts)}

\* The rows groups.last() may keep for group k after df.sort_index(): a row of
\* the group that no other row of the group follows.  Rows with equal
\* timestamps are left in the order the sort happens to give them.
LastOfGroup(rows, k) ==
    {r \in Group(rows, k) : \A q \in Group(rows, k) : ~TsLess(r.ts, q.ts)}

\* The tables groups.last().reset_index() may give: one row per key, in
\* ascending key order
RECURSIVE LastTables(_, _)
LastTables(rows, keys) ==
    IF keys = <<>> THEN {<<>>}
    ELSE {<<[event_date |-> Head(keys)[1], firm |-> Head(keys)[2],
             action |-> r.action]>> \o rest :
            r \in LastOfGroup(rows, Head(keys)),
            rest \in LastTables(rows, Tail(keys))}

ActionCondExact(action) == action = Up \/ action = Down

\* df.loc[:, 'action'].str.contains('up|down')
ActionCond(action) == Contains(action, Up) \/ Contains(action, Down)

\* df.loc[cond]: the rows that pass, each keeping its index label
RECURSIVE FilterRows(_, _)
FilterRows(df, i) ==
    IF i > Len(df) THEN <<>>
    ELSE (IF ActionCond(df[i].action)
          THEN <<[index |-> i - 1, row |-> df[i]]>> ELSE <<>>)
         \o FilterRows(df, i + 1)

MkEtLenient(value) ==
    IF value = Down THEN [raised |-> FALSE, value |-> "downgrade"]
    ELSE [raised |-> FALSE, value |-> "upgrade"]

\* _mk_et(value)
MkEt(value) ==
    IF value = Down THEN [raised |-> FALSE, value |-> "downgrade"]
    ELSE IF value = Up THEN [raised |-> FALSE, value |-> "upgrade"]
    ELSE [raised |-> TRUE, value |-> value]

KeepIndex(df) == df

\* df.reset_index(inplace=True): the index becomes 0, 1, ...
ResetIndex(df) == [i \in 1..Len(df) |-> [df[i] EXCEPT !.index = i - 1]]

\* Steps 4.1 to 4.4 on the deduplicated table `last`
EventTable(last) ==
    LET df == FilterRows(last, 1)
        et == [i \in 1..Len(df) |-> MkEt(df[i].row.action)]
        bad == {i \in 1..Len(df) : et[i].raised}
        re == ResetIndex(df)
    IN  IF bad # {}
        THEN [raised |-> TRUE,
              value |-> et[CHOOSE i \in bad : \A j \in bad : i <= j].value,
              table |-> None]
        ELSE [raised |-> FALSE, value |-> None,
              table |-> [i \in 1..Len(re) |->
                           [event_id |-> re[i].index + 1,
                            firm |-> re[i].row.firm,
                            event_date |-> re[i].row.event_date,
                            event_type |-> et[i].value]]]

\* pd.read_csv delivers one more recommendation row
ReadRec ==
    /\ pc = "read"
    /\ Cardinality(rec_rows) < MaxRecRows
    /\ \E r \in RecRows \ rec_rows : rec_rows' = rec_rows \cup {r}
    /\ UNCHANGED <<pc, ev_last, ev_res>>

\* mk_event_df(tic) on a file with at least one row
MkEventDf ==
    /\ pc = "read"
    /\ rec_rows # {}
    /\ \E last \in LastTables(rec_rows,
                              SortKeys({EventKey(r) : r \in rec_rows})) :
           /\ ev_last' = last
           /\ ev_res' = EventTable(last)
    /\ pc' = IF ev_res'.raised THEN "raised" ELSE "returned"
    /\ UNCHANGED rec_rows

InitEvents == InitCols

NextEvents ==
    \/ ReadRec
           /\ UNCHANGED <<colVars, expVars, carVars, retVars,
                        tsVars, mainVars>>
    \/ MkEventDf
           /\ UNCHANGED <<colVars, expVars, carVars, retVars,
                        tsVars, mainVars>>

SpecEvents == InitEvents /\ [][NextEvents]_vars

Keys == {EventKey(r) : r \in rec_rows}
EventsOf(k) ==
    {i \in DOMAIN ev_res.table :
        <<ev_res.table[i].event_date, ev_res.table[i].firm>> = k}

\* C3: a pair that occurs in several raw rows gives at most one event, and
\* its event_type comes from the action of a chronologically last row.
C3_LastRowWins ==
    pc = "returned" =>
        \A k \in Keys :
            Cardinality(Group(rec_rows, k)) > 1 =>
                /\ Cardinality(EventsOf(k)) <= 1
                /\ \A i \in EventsOf(k) :
                       \E r \in Group(rec_rows, k) :
                           /\ \A q \in Group(rec_rows, k) :
                                  ~TsLess(r.ts, q.ts)
                           /\ \/ r.action = Up
                                   /\ ev_res.table[i].event_type = "upgrade"
                              \/ r.action = Down
                                   /\ ev_res.table[i].event_type = "downgrade"

\* A pair with an earlier 'up' and a later 'down' gives a downgrade.
C3_Witness ==
    /\ pc = "returned"
    /\ \E r, q \in rec_rows :
           /\ EventKey(r) = EventKey(q) /\ TsLess(r.ts, q.ts)
           /\ r.action = Up /\ q.action = Down
           /\ \E i \in EventsOf(EventKey(q)) :
                  ev_res.table[i].event_type = "downgrade"

\* The raw rows of pair k that no other row of the pair follows in time.
ChronLast(k) ==
    {r \in rec_rows :
        /\ EventKey(r) = k
        /\ \A q \in rec_rows : EventKey(q) = k => ~TsLess(r.ts, q.ts)}

\* C4 as stated: every pair with at least one 'up' or 'down' raw row gives
\* exactly one event.
C4_OneEventPerUpDownPair ==
    pc = "returned" =>
        \A k \in Keys :
            (\E r \in Group(rec_rows, k) : r.action \in {Up, Down}) =>
                Cardinality(EventsOf(k)) = 1

\* C4 amended: a pair gives exactly one event when its chronologically last
\* raw row is 'up' or 'down', and none when that row has another action.
C4_OneEventPerLastUpDown ==
    pc = "returned" =>
        \A k \in Keys :
            /\ (\A r \in ChronLast(k) : r.action \in {Up, Down})
                   => Cardinality(EventsOf(k)) = 1
            /\ (\A r \in ChronLast(k) : r.action \notin {Up, Down})
                   => Cardinality(EventsOf(k)) = 0

\* A pair with an earlier 'up' and a later 'main' gives no event, while
\* another pair gives one.
C4_Witness ==
    /\ pc = "returned"
    /\ \E r, q \in rec_rows :
           /\ EventKey(r) = EventKey(q) /\ TsLess(r.ts, q.ts)
           /\ r.action = Up /\ q.action \notin {Up, Down}
           /\ EventsOf(EventKey(q)) = {}
    /\ Len(ev_res.table) = 1

\* C5: the event ids are 1..N in row order and the rows ascend by
\* (event_date, firm).
C5_SequentialIds ==
    pc = "returned" =>
        /\ \A i \in 1..Len(ev_res.table) : ev_res.table[i].event_id = i
        /\ \A i, j \in 1..Len(ev_res.table) :
               i < j =>
                   LET a == ev_res.table[i]
                       b == ev_res.table[j]
                   IN  \/ DateLess(ToDatetime(a.event_date),
                                   ToDatetime(b.event_date))
                       \/ a.event_date = b.event_date
                            /\ StrLess(a.firm, b.firm)

\* Two events survive a table whose first deduplicated row was filtered out.
C5_Witness ==
    /\ pc = "returned"
    /\ Len(ev_res.table) = 2
    /\ ~ActionCond(ev_last[1].action)

Offending == {i \in 1..Len(ev_last) :
                 ActionCond(ev_last[i].action)
                     /\ ev_last[i].action \notin {Up, Down}}

\* C6: mk_event_df raises, with the offending action, exactly when a
\* deduplicated row passes the filter without being 'up' or 'down'; a row
\* matching neither is dropped without raising.
C6_RaisesOnUnknownAction ==
    pc \in {"raised", "returned"} =>
        /\ (Offending # {}) <=> (pc = "raised")
        /\ pc = "raised" =>
               /\ ev_res.table = None
               /\ \E i \in Offending : ev_res.value = ev_last[i].action
        /\ pc = "returned" =>
               \A i \in 1..Len(ev_last) :
                   ~ActionCond(ev_last[i].action) =>
                       EventsOf(<<ev_last[i].event_date, ev_last[i].firm>>)
                           = {}

\* A run that raised although another deduplicated row matched neither.
C6_Witness ==
    /\ pc = "raised"
    /\ \E i \in 1..Len(ev_last) : ~ActionCond(ev_last[i].action)

\* A run that dropped a row matching neither and returned an event.
C6_WitnessDropped ==
    /\ pc = "returned"
    /\ Len(ev_res.table) >= 1
    /\ \E i \in 1..Len(ev_last) : ~ActionCond(ev_last[i].action)

-----------------------------------------------------------------------------
(* mk_cars.expand_dates *)

MaxWindow == 3

\* Days from 1970-01-01 to the calendar date, the value a datetime64 holds
DaysFromCivil(date) ==
    LET y == IF date[2] <= 2 THEN date[1] - 1 ELSE date[1]
        era == y \div 400
        yoe == y - (era * 400)
        mp == IF date[2] > 2 THEN date[2] - 3 ELSE date[2] + 9
        doy == (((153 * mp) + 2) \div 5) + date[3] - 1
        doe == (yoe * 365) + (yoe \div 4) - (yoe \div 100) + doy
    IN  (era * 146097) + doe - 719468

\* The calendar date of a datetime64 day count
CivilFromDays(z) ==
    LET zz == z + 719468
        era == zz \div 146097
        doe == zz - (era * 146097)
        yoe == (doe - (doe \div 1460) + (doe \div 36524) - (doe \div 146096))
                   \div 365
        doy == doe - ((365 * yoe) + (yoe \div 4) - (yoe \div 100))
        mp == ((5 * doy) + 2) \div 153
        d == doy - (((153 * mp) + 2) \div 5) + 1
        m == IF mp < 10 THEN mp + 3 ELSE mp - 9
    IN  <<yoe + (era * 400) + (IF m <= 2 THEN 1 ELSE 0), m, d>>

AddDaysNoCarry(date, k) == <<date[1], date[2], date[3] + k>>

\* df.event_date + pd.to_timedelta(df.event_time, unit='day'), one row
AddDays(date, k) == CivilFromDays(DaysFromCivil(date) + k)

\* expand_dates(ser, window)
ExpandDates(s, w) ==
    [i \in 1..((2 * w) + 1) |->
        [event_id |-> s.event_id,
         firm |-> s.firm,
         event_date |-> ToDatetime(s.event_date),
         event_time |-> i - 1 - w,
         ret_date |-> AddDays(ToDatetime(s.event_date), i - 1 - w)]]

IsLeap(y) == (y % 4 = 0 /\ y % 100 # 0) \/ y % 400 = 0

DaysInMonth(y, m) ==
    IF m = 2 THEN (IF IsLeap(y) THEN 29 ELSE 28)
    ELSE IF m \in {4, 6, 9, 11} THEN 30 ELSE 31

\* The event dates expand_dates is tried on: every day of 2011 and 2012
ExpDates ==
    {date \in {2011, 2012} \X (1..12) \X (1..31) :
        date[3] <= DaysInMonth(date[1], date[2])}

\* An event row as mk_event_df produces it
EventRow(id, firm, date, type) ==
    [event_id |-> id, firm |-> firm,
     event_date |-> StrfDate([date |-> date, t |-> 0]), event_type |-> type]

\* expand_dates(ser, window) for some window >= 0
ExpandDatesCall ==
    /\ pc = "read"
    /\ \E w \in 0..MaxWindow :
           /\ window' = w
           /\ exp_out' = ExpandDates(ser, w)
    /\ pc' = "expanded"
    /\ UNCHANGED ser

InitExpand ==
    /\ pc = "read"
    /\ \E date \in ExpDates, firm \in {<<"A">>, <<"B">>} :
           ser = EventRow(1, firm, date, "upgrade")
    /\ window = 0 /\ exp_out = None
    /\ ColIdle /\ EvIdle /\ CarIdle /\ RetIdle /\ TsIdle
    /\ MainIdle

NextExpand ==
    ExpandDatesCall
           /\ UNCHANGED <<colVars, evVars, carVars, retVars, tsVars, mainVars>>

SpecExpand == InitExpand /\ [][NextExpand]_vars

NextDay(date) ==
    IF date[3] < DaysInMonth(date[1], date[2])
    THEN <<date[1], date[2], date[3] + 1>>
    ELSE IF date[2] < 12 THEN <<date[1], date[2] + 1, 1>>
    ELSE <<date[1] + 1, 1, 1>>

PrevDay(date) ==
    IF date[3] > 1 THEN <<date[1], date[2], date[3] - 1>>
    ELSE IF date[2] > 1
         THEN <<date[1], date[2] - 1, DaysInMonth(date[1], date[2] - 1)>>
    ELSE <<date[1] - 1, 12, 31>>

\* The calendar date k days after date (before it, for k < 0)
RECURSIVE Shift(_, _)
Shift(date, k) ==
    IF k = 0 THEN date
    ELSE IF k > 0 THEN NextDay(Shift(date, k - 1))
    ELSE PrevDay(Shift(date, k + 1))

\* C7: expand_dates returns 2w+1 rows, one per offset k = -w..w in ascending
\* order, with event_time = k and ret_date = event_date + k calendar days,
\* every row carrying the event's firm and event_date.
C7_ExpandDates ==
    pc = "expanded" =>
        /\ Len(exp_out) = (2 * window) + 1
        /\ \A i \in 1..Len(exp_out) :
               LET k == i - 1 - window
                   row == exp_out[i]
               IN  /\ row.event_time = k
                   /\ row.firm = ser.firm
                   /\ StrfDate([date |-> row.event_date, t |-> 0])
                          = ser.event_date
                   /\ row.ret_date = Shift(row.event_date, k)

\* The docstring's example shape: a window that crosses the end of February
\* of a leap year.
C7_Witness ==
    /\ pc = "expanded"
    /\ window = 2
    /\ ser.event_date = <<"2", "0", "1", "2", "-", "0", "2", "-", "2", "8">>
    /\ exp_out[5].ret_date = <<2012, 3, 1>>
    /\ exp_out[1].ret_date = <<2012, 2, 26>>

-----------------------------------------------------------------------------
(* mk_cars.calc_car, mk_cars.mk_cars_df *)

MaxRetRows == 2
MaxEvents == 2

\* calc_car's default for `window`
DefaultWindow == 2

NaN == [nan |-> TRUE, v |-> 0]
Num(n) == [nan |-> FALSE, v |-> n]

\* The dates, returns (in hundredths) and events mk_cars_df is tried on
CarDates == {<<2012, 2, 26>>, <<2012, 2, 27>>, <<2012, 2, 28>>, <<2012, 2, 29>>,
             <<2012, 3, 1>>, <<2012, 3, 2>>, <<2012, 3, 3>>}
RetRows == [date : CarDates, ret : {Num(0), Num(2)}, mkt : {Num(0), Num(1)}]
CarEventDates == {<<2012, 2, 28>>, <<2012, 3, 1>>}
CarEvents ==
    {EventRow(id, <<"A">>, date, type) :
        id \in 1..MaxEvents, date \in CarEventDates,
        type \in {"upgrade", "downgrade"}}

\* a - b and a + b on floats: NaN if either is
FloatSub(a, b) == IF a.nan \/ b.nan THEN NaN ELSE Num(a.v - b.v)
FloatAdd(a, b) == IF a.nan \/ b.nan THEN NaN ELSE Num(a.v + b.v)

AbnormalReturnSum(row) == FloatAdd(row.ret, row.mkt)

\* df.loc[:, 'ret'] - df.loc[:, 'mkt'], one row
AbnormalReturn(row) == FloatSub(row.ret, row.mkt)

\* dates.join(ret_df, how='inner') with ret_date as the index of `dates`:
\* the rows of `dates` from the i-th on, each with the ret_df rows of its date
RECURSIVE JoinInner(_, _, _)
JoinInner(dates, rets, i) ==
    IF i > Len(dates) THEN <<>>
    ELSE (IF \E r \in rets : r.date = dates[i].ret_date
          THEN LET r == CHOOSE r \in rets : r.date = dates[i].ret_date
               IN  <<[ret_date |-> dates[i].ret_date,
                      event_time |-> dates[i].event_time,
                      ret |-> r.ret, mkt |-> r.mkt]>>
          ELSE <<>>)
         \o JoinInner(dates, rets, i + 1)

\* df['aret'].sum() over the rows from the i-th on: NaN values are skipped
RECURSIVE SumAret(_, _)
SumAret(df, i) ==
    IF i > Len(df) THEN 0
    ELSE (IF AbnormalReturn(df[i]).nan THEN 0 ELSE AbnormalReturn(df[i]).v)
         + SumAret(df, i + 1)

CalcCarSumOnly(s, rets, w) ==
    Num(SumAret(JoinInner(ExpandDates(s, w), rets, 1), 1))

\* calc_car(ser, ret_df, window)
CalcCar(s, rets, w) ==
    LET df == JoinInner(ExpandDates(s, w), rets, 1)
    IN  IF Len(df) = 0 THEN NaN ELSE Num(SumAret(df, 1))

\* pd.read_csv and mk_ret_df deliver one more row of ret_df (unique dates)
ReadRet ==
    /\ pc = "read"
    /\ Cardinality(ret_df) < MaxRetRows
    /\ \E r \in RetRows :
           /\ \A q \in ret_df : q.date # r.date
           /\ ret_df' = ret_df \cup {r}
    /\ UNCHANGED <<pc, event_df, cars_df, car_out>>

\* mk_event_df delivers one more event: ids count from 1 and the rows ascend
\* by (event_date, firm)
ReadEvent ==
    /\ pc = "read"
    /\ Len(event_df) < MaxEvents
    /\ \E e \in CarEvents :
           /\ e.event_id = Len(event_df) + 1
           /\ event_df # <<>> =>
                  KeyLess(<<event_df[Len(event_df)].event_date,
                            event_df[Len(event_df)].firm>>,
                          <<e.event_date, e.firm>>)
           /\ event_df' = Append(event_df, e)
    /\ UNCHANGED <<pc, ret_df, cars_df, car_out>>

\* calc_car(ser, ret_df, window) on one row of event_df
CalcCarCall ==
    /\ pc = "read"
    /\ \E i \in 1..Len(event_df), w \in 0..MaxWindow :
           /\ ser' = event_df[i]
           /\ window' = w
           /\ exp_out' = ExpandDates(event_df[i], w)
           /\ car_out' = CalcCar(event_df[i], ret_df, w)
    /\ pc' = "car"
    /\ UNCHANGED <<ret_df, event_df, cars_df>>

\* mk_cars_df(ret_df, event_df) on a table with at least one event: the `car`
\* column is set on the caller's event_df, which is what is returned
MkCarsDf ==
    /\ pc = "read"
    /\ Len(event_df) >= 1
    /\ event_df' =
           [i \in 1..Len(event_df) |->
               [event_id |-> event_df[i].event_id,
                firm |-> event_df[i].firm,
                event_date |-> event_df[i].event_date,
                event_type |-> event_df[i].event_type,
                car |-> CalcCar(event_df[i], ret_df, DefaultWindow)]]
    /\ cars_df' = event_df'
    /\ pc' = "cars"
    /\ UNCHANGED <<ret_df, car_out, ser, window, exp_out>>

InitCars == InitCols

NextCars ==
    \/ ReadRet
           /\ UNCHANGED <<colVars, evVars, expVars, retVars, tsVars, mainVars>>
    \/ ReadEvent
           /\ UNCHANGED <<colVars, evVars, expVars, retVars, tsVars, mainVars>>
    \/ CalcCarCall
           /\ UNCHANGED <<colVars, evVars, retVars, tsVars, mainVars>>
    \/ MkCarsDf
           /\ UNCHANGED <<colVars, evVars, retVars, tsVars, mainVars>>

SpecCars == InitCars /\ [][NextCars]_vars

\* The rows of the return series within w calendar days of the date
InWindow(date, w) ==
    {r \in ret_df : \E k \in (0 - w)..w : r.date = Shift(date, k)}

\* The sum of stock return minus market return over a set of rows
RECURSIVE SumOver(_)
SumOver(S) ==
    IF S = {} THEN 0
    ELSE LET r == CHOOSE r \in S : TRUE
         IN  (r.ret.v - r.mkt.v) + SumOver(S \ {r})

\* C8 as stated: the car of every event is the sum of stock return minus
\* market return over the series dates within 2 calendar days of the event.
C8_CarIsWindowSum ==
    pc = "cars" =>
        \A i \in 1..Len(cars_df) :
            cars_df[i].car =
                Num(SumOver(InWindow(ToDatetime(cars_df[i].event_date), 2)))

\* C8 amended: the same when at least one series date lies in the window;
\* with none the car is the 'no data' value, not the empty sum.
C8_CarIsWindowSumOrNoData ==
    pc = "cars" =>
        \A i \in 1..Len(cars_df) :
            LET M == InWindow(ToDatetime(cars_df[i].event_date), 2)
            IN  /\ M # {} => cars_df[i].car = Num(SumOver(M))
                /\ M = {} => cars_df[i].car = NaN

\* An event whose window holds one date of the series while another date of
\* the series lies outside it.
C8_Witness ==
    /\ pc = "cars"
    /\ \E i \in 1..Len(cars_df) :
           LET M == InWindow(ToDatetime(cars_df[i].event_date), 2)
           IN  /\ Cardinality(M) = 1
               /\ ret_df \ M # {}
               /\ cars_df[i].car = Num(SumOver(M))
               /\ SumOver(ret_df) # SumOver(M)

\* C9: calc_car returns the 'no data' value exactly when no candidate date of
\* the window is in the return series, and a number otherwise.
C9_NoDataSentinel ==
    /\ pc = "car" =>
           (car_out = NaN <=> InWindow(ToDatetime(ser.event_date), window) = {})
    /\ pc = "car" =>
           (~car_out.nan <=>
                InWindow(ToDatetime(ser.event_date), window) # {})

\* calc_car returned 'no data' for a series that has rows, all outside the
\* window.
C9_Witness ==
    /\ pc = "car"
    /\ car_out = NaN
    /\ ret_df # {}

\* calc_car returned the number 0 for a matched date.
C9_WitnessZero ==
    /\ pc = "car"
    /\ car_out = Num(0)
    /\ InWindow(ToDatetime(ser.event_date), window) # {}

-----------------------------------------------------------------------------
(* mk_rets.mk_ret_df *)

MaxPrcRows == 3
MaxFfRows == 2

\* The dates, closing prices and market returns mk_ret_df is tried on
RetDates == {<<2012, 2, 28>>, <<2012, 2, 29>>, <<2012, 3, 1>>, <<2012, 3, 2>>}
PrcRows == [date : RetDates, close : {1, 2}]
FfRows == [date : RetDates, mkt : {Num(0), Num(1), NaN}]

\* The rows of S in ascending date order: df.sort_index(inplace=True)
RECURSIVE SortByDate(_)
SortByDate(S) ==
    IF S = {} THEN <<>>
    ELSE LET r == CHOOSE x \in S : \A y \in S \ {x} : DateLess(x.date, y.date)
         IN  <<r>> \o SortByDate(S \ {r})

\* df.loc[:, 'close'].pct_change(), in hundredths: the first row has no
\* previous close
PctChange(df) ==
    [i \in 1..Len(df) |->
        IF i = 1 THEN NaN
        ELSE Num(((df[i].close - df[i - 1].close) * 100) \div df[i - 1].close)]

\* df.join(ff_df, how='inner')[['mkt', 'ret']] from the i-th row of df on
RECURSIVE JoinFf(_, _, _, _)
JoinFf(df, ret, ff, i) ==
    IF i > Len(df) THEN <<>>
    ELSE (IF \E f \in ff : f.date = df[i].date
          THEN LET f == CHOOSE f \in ff : f.date = df[i].date
               IN  <<[date |-> df[i].date, mkt |-> f.mkt, ret |-> ret[i]]>>
          ELSE <<>>)
         \o JoinFf(df, ret, ff, i + 1)

KeepNa(df) == df

\* df.dropna(inplace=True)
DropNa(df) == SelectSeq(df, LAMBDA row : ~row.mkt.nan /\ ~row.ret.nan)

\* pd.read_csv delivers one more price row (one row per trading day)
ReadPrc ==
    /\ pc = "read"
    /\ Cardinality(prc_rows) < MaxPrcRows
    /\ \E r \in PrcRows :
           /\ \A q \in prc_rows : q.date # r.date
           /\ prc_rows' = prc_rows \cup {r}
    /\ UNCHANGED <<pc, ff_rows, rets_out>>

\* pd.read_csv delivers one more row of the market factor file
ReadFf ==
    /\ pc = "read"
    /\ Cardinality(ff_rows) < MaxFfRows
    /\ \E r \in FfRows :
           /\ \A q \in ff_rows : q.date # r.date
           /\ ff_rows' = ff_rows \cup {r}
    /\ UNCHANGED <<pc, prc_rows, rets_out>>

\* mk_ret_df(tic) on files with at least one row each
MkRetDf ==
    /\ pc = "read"
    /\ prc_rows # {}
    /\ ff_rows # {}
    /\ LET df == SortByDate(prc_rows)
       IN  rets_out' = DropNa(JoinFf(df, PctChange(df), ff_rows, 1))
    /\ pc' = "rets"
    /\ UNCHANGED <<prc_rows, ff_rows>>

InitRets == InitCols

NextRets ==
    \/ ReadPrc
           /\ UNCHANGED <<colVars, evVars, expVars, carVars, tsVars, mainVars>>
    \/ ReadFf
           /\ UNCHANGED <<colVars, evVars, expVars, carVars, tsVars, mainVars>>
    \/ MkRetDf
           /\ UNCHANGED <<colVars, evVars, expVars, carVars, tsVars, mainVars>>

SpecRets == InitRets /\ [][NextRets]_vars

PrcDates == {r.date : r \in prc_rows}
FfDates == {r.date : r \in ff_rows}

\* C10: every output row has a date of both series and no missing value; the
\* earliest price date is never output; series without a common date give
\* an empty output.
C10_RetsAligned ==
    pc = "rets" =>
        /\ \A i \in 1..Len(rets_out) :
               /\ rets_out[i].date \in PrcDates \cap FfDates
               /\ ~rets_out[i].ret.nan
               /\ ~rets_out[i].mkt.nan
               /\ \E d \in PrcDates : DateLess(d, rets_out[i].date)
        /\ PrcDates \cap FfDates = {} => rets_out = <<>>

\* The earliest price date is in the market series with a market return,
\* a later row is output, and a row was dropped.
C10_Witness ==
    /\ pc = "rets"
    /\ Len(rets_out) >= 1
    /\ \E f \in ff_rows :
           /\ ~f.mkt.nan
           /\ \A d \in PrcDates : ~DateLess(d, f.date)
           /\ f.date \in PrcDates

\* The two series share no date and the output is empty.
C10_WitnessDisjoint ==
    /\ pc = "rets"
    /\ PrcDates \cap FfDates = {}
    /\ rets_out = <<>>

-----------------------------------------------------------------------------
(* test_hypo.calc_tstats *)
(*                                                                         *)
(* The statistics are kept exact.  A mean is a fraction [nan, num, den].   *)
(* A variance is a fraction too; a standard error is kept as its square    *)
(* [nan, sq_num, sq_den]; a t-statistic is NaN, +-infinity or a number     *)
(* kept as its sign and its square: [kind, sign, sq_num, sq_den].          *)

MaxCarRows == 3

\* The rows calc_tstats is tried on: cars in hundredths, or NaN
CarValues == {NaN, Num(0 - 1), Num(1), Num(3)}
EventTypes == {"upgrade", "downgrade"}
CarRows == [event_type : EventTypes, car : CarValues]

NanFrac == [nan |-> TRUE, num |-> 0, den |-> 1]
NanSem == [nan |-> TRUE, sq_num |-> 0, sq_den |-> 1]
NanT == [kind |-> "nan", sign |-> 0, sq_num |-> 0, sq_den |-> 1]

Sign(n) == IF n > 0 THEN 1 ELSE IF n < 0 THEN 0 - 1 ELSE 0

GroupValuesFillZero(rows, g) ==
    LET grp == SelectSeq(rows, LAMBDA r : r.event_type = g)
    IN  [i \in 1..Len(grp) |-> grp[i].car.v]

\* The values of group g that groupby('event_type')['car'] aggregates:
\* mean, sem and count all skip NaN
GroupValues(rows, g) ==
    LET grp == SelectSeq(rows, LAMBDA r : r.event_type = g /\ ~r.car.nan)
    IN  [i \in 1..Len(grp) |-> grp[i].car.v]

RECURSIVE SumSeq(_)
SumSeq(vals) == IF vals = <<>> THEN 0 ELSE Head(vals) + SumSeq(Tail(vals))

\* groups.count()
GroupCount(vals) == Len(vals)

\* groups.mean()
GroupMean(vals) ==
    IF Len(vals) = 0 THEN NanFrac
    ELSE [nan |-> FALSE, num |-> SumSeq(vals), den |-> Len(vals)]

GroupVarPopulation(vals) ==
    LET n == Len(vals)
        S == SumSeq(vals)
        dev == [i \in 1..n |-> ((n * vals[i]) - S) * ((n * vals[i]) - S)]
    IN  IF n < 2 THEN NanFrac
        ELSE [nan |-> FALSE, num |-> SumSeq(dev), den |-> n * n * n]

\* The sample variance (ddof = 1) inside groups.sem(): the squared
\* deviations from the mean S/n over n - 1, both scaled by n * n
GroupVar(vals) ==
    LET n == Len(vals)
        S == SumSeq(vals)
        dev == [i \in 1..n |-> ((n * vals[i]) - S) * ((n * vals[i]) - S)]
    IN  IF n < 2 THEN NanFrac
        ELSE [nan |-> FALSE, num |-> SumSeq(dev), den |-> n * n * (n - 1)]

\* groups.sem(): sqrt(var) / sqrt(count)
GroupSem(vals) ==
    LET var == GroupVar(vals)
    IN  IF var.nan THEN NanSem
        ELSE [nan |-> FALSE, sq_num |-> var.num,
              sq_den |-> var.den * Len(vals)]

\* car_bar / car_sem as floats divide: x / 0 is +-inf and 0 / 0 is NaN
FloatDiv(mean, sem) ==
    IF mean.nan \/ sem.nan THEN NanT
    ELSE IF sem.sq_num = 0
         THEN (IF mean.num = 0 THEN NanT
               ELSE [kind |-> "inf", sign |-> Sign(mean.num),
                     sq_num |-> 0, sq_den |-> 1])
    ELSE [kind |-> "num", sign |-> Sign(mean.num),
          sq_num |-> mean.num * mean.num * sem.sq_den,
          sq_den |-> mean.den * mean.den * sem.sq_num]

\* The row of `res` for group g
TstatRow(rows, g) ==
    LET vals == GroupValues(rows, g)
    IN  [event_type |-> g,
         car_bar |-> GroupMean(vals),
         car_t |-> FloatDiv(GroupMean(vals), GroupSem(vals)),
         n_obs |-> GroupCount(vals)]

\* calc_tstats(event_cars): one row per group key
CalcTstats(rows) ==
    {TstatRow(rows, g) : g \in {rows[i].event_type : i \in 1..Len(rows)}}

\* mk_cars_df delivers one more row of event_cars
ReadCar ==
    /\ pc = "read"
    /\ Len(event_cars) < MaxCarRows
    /\ \E r \in CarRows : event_cars' = Append(event_cars, r)
    /\ UNCHANGED <<pc, tstat_out>>

\* calc_tstats(event_cars) on a table with at least one row
CalcTstatsCall ==
    /\ pc = "read"
    /\ Len(event_cars) >= 1
    /\ tstat_out' = CalcTstats(event_cars)
    /\ pc' = "tstats"
    /\ UNCHANGED event_cars

InitTstats == InitCols

NextTstats ==
    \/ ReadCar
           /\ UNCHANGED <<colVars, evVars, expVars, carVars, retVars, mainVars>>
    \/ CalcTstatsCall
           /\ UNCHANGED <<colVars, evVars, expVars, carVars, retVars, mainVars>>

SpecTstats == InitTstats /\ [][NextTstats]_vars

\* The positions of the rows of group g that hold a number
Numeric(g) ==
    {i \in 1..Len(event_cars) :
        event_cars[i].event_type = g /\ ~event_cars[i].car.nan}

RECURSIVE SumCars(_)
SumCars(I) ==
    IF I = {} THEN 0
    ELSE LET i == CHOOSE i \in I : TRUE
         IN  event_cars[i].car.v + SumCars(I \ {i})

RECURSIVE SumSquares(_)
SumSquares(I) ==
    IF I = {} THEN 0
    ELSE LET i == CHOOSE i \in I : TRUE
         IN  (event_cars[i].car.v * event_cars[i].car.v) + SumSquares(I \ {i})

\* n * (sum of squares) - (sum)^2: zero exactly when all values are equal
Spread(I) ==
    (Cardinality(I) * SumSquares(I)) - (SumCars(I) * SumCars(I))

TypesPresent == {event_cars[i].event_type : i \in 1..Len(event_cars)}

\* C11: one row per event_type present; per group car_bar is the mean of
\* the group's car values, n_obs their number, and car_t the mean over the
\* standard error of the mean, t^2 = S^2 (n - 1) / (n * sum x^2 - S^2).
C11_GroupStatistics ==
    pc = "tstats" =>
        /\ {r.event_type : r \in tstat_out} = TypesPresent
        /\ \A g \in TypesPresent :
               Cardinality({r \in tstat_out : r.event_type = g}) = 1
        /\ \A r \in tstat_out :
               LET I == Numeric(r.event_type)
                   n == Cardinality(I)
               IN  /\ r.n_obs = n
                   /\ n >= 1 =>
                          /\ ~r.car_bar.nan
                          /\ r.car_bar.num * n = SumCars(I) * r.car_bar.den
                   /\ (n >= 2 /\ Spread(I) # 0) =>
                          /\ r.car_t.kind = "num"
                          /\ r.car_t.sign = Sign(SumCars(I))
                          /\ r.car_t.sq_num * Spread(I)
                                 = SumCars(I) * SumCars(I) * (n - 1)
                                       * r.car_t.sq_den

\* The group of the design's example: cars 0.01, 0.03, -0.01 give mean 0.01,
\* n_obs 3 and t^2 = 3/4.
C11_Witness ==
    /\ pc = "tstats"
    /\ \E r \in tstat_out :
           /\ r.n_obs = 3
           /\ r.car_bar.num = r.car_bar.den
           /\ r.car_t.kind = "num"
           /\ r.car_t.sign = 1
           /\ r.car_t.sq_num * 4 = r.car_t.sq_den * 3
           /\ \E i, j, k \in Numeric(r.event_type) :
                  /\ event_cars[i].car.v = 1
                  /\ event_cars[j].car.v = 3
                  /\ event_cars[k].car.v = 0 - 1

\* C12: a group of fewer than 2 values, or whose values are all equal (zero
\* standard error), gets a NaN t-statistic, never a finite or infinite one.
C12_DegenerateIsNaN ==
    pc = "tstats" =>
        \A r \in tstat_out :
            LET I == Numeric(r.event_type)
            IN  (Cardinality(I) < 2 \/ Spread(I) = 0) =>
                    r.car_t.kind = "nan"

\* event_cars without the rows whose car is the 'no data' value
WithoutNoData == SelectSeq(event_cars, LAMBDA r : ~r.car.nan)

\* C13: rows whose car is the 'no data' value are left out of the
\* aggregation: they do not count towards n_obs, and a group's row is the one
\* calc_tstats gives for the table without those rows; a group of such rows
\* only has n_obs 0 and no mean and no t-statistic.
C13_NoDataExcluded ==
    pc = "tstats" =>
        \A r \in tstat_out :
            LET I == Numeric(r.event_type)
            IN  /\ r.n_obs = Cardinality(I)
                /\ I # {} => r = TstatRow(WithoutNoData, r.event_type)
                /\ I # {} => r.car_bar.num * Cardinality(I)
                                 = SumCars(I) * r.car_bar.den
                /\ I = {} => r.car_bar.nan /\ r.car_t.kind = "nan"

\* A group with a 'no data' row and two different numbers.
C13_Witness ==
    /\ pc = "tstats"
    /\ \E r \in tstat_out :
           /\ r.n_obs = 2
           /\ r.car_t.kind = "num"
           /\ \E i \in 1..Len(event_cars) :
                  /\ event_cars[i].event_type = r.event_type
                  /\ event_cars[i].car.nan

-----------------------------------------------------------------------------
(* main.main *)
(*                                                                         *)
(* A csv file that is missing or unreadable is the empty set of rows: the  *)
(* stage that reads it raises.  download.get_data is the environment: it   *)
(* replaces the files by what it downloads, or raises.                     *)

\* The values of `update_csv` main is tried on
UpdateCsvValues == {"True", "False", "1"}

\* The files main is tried on
MainPrcFiles ==
    {{},
     {[date |-> <<2012, 2, 28>>, close |-> 1],
      [date |-> <<2012, 2, 29>>, close |-> 2],
      [date |-> <<2012, 3, 1>>, close |-> 1]},
     {[date |-> <<2012, 2, 29>>, close |-> 2],
      [date |-> <<2012, 3, 2>>, close |-> 2]}}
MainRecRows ==
    {[ts |-> [date |-> <<2012, 2, 29>>, t |-> 9], firm |-> <<"A">>,
      action |-> Up],
     [ts |-> [date |-> <<2012, 2, 29>>, t |-> 16], firm |-> <<"A">>,
      action |-> <<"m", "a", "i", "n">>],
     [ts |-> [date |-> <<2012, 3, 1>>, t |-> 9], firm |-> <<"b">>,
      action |-> Down],
     [ts |-> [date |-> <<2012, 3, 1>>, t |-> 9], firm |-> <<"B">>,
      action |-> <<"u", "p", "s">>]}
MainRecFiles == SUBSET MainRecRows
MainFfFile ==
    {[date |-> <<2012, 2, 28>>, mkt |-> Num(0)],
     [date |-> <<2012, 2, 29>>, mkt |-> Num(1)],
     [date |-> <<2012, 3, 1>>, mkt |-> NaN],
     [date |-> <<2012, 3, 2>>, mkt |-> Num(1)]}

IsTruthy(u) == u # "False"

\* `update_csv is True`
IsTrue(u) == u = "True"

\* Step 1: download.get_data(tic) writes <prc csv>, then <rec csv>; it may
\* raise before either file, or between the two
MainGetData ==
    /\ pc = "main"
    /\ IsTrue(update_csv)
    /\ log' = Append(log, "get_data")
    /\ \E p \in MainPrcFiles \ {{}}, r \in MainRecFiles \ {{}} :
           \/ /\ prc_rows' = p /\ rec_rows' = r
              /\ pc' = "fetched" /\ failed' = failed
           \/ /\ prc_rows' = p /\ rec_rows' = rec_rows
              /\ pc' = "failed" /\ failed' = "get_data"
           \/ /\ prc_rows' = prc_rows /\ rec_rows' = rec_rows
              /\ pc' = "failed" /\ failed' = "get_data"
    /\ UNCHANGED <<update_csv, ff_rows, rets_out, ev_last, ev_res>>
    /\ UNCHANGED <<colVars, expVars, carVars, tsVars>>

\* Step 1, else branch: the download is skipped
MainSkipGetData ==
    /\ pc = "main"
    /\ ~IsTrue(update_csv)
    /\ pc' = "fetched"
    /\ UNCHANGED <<colVars, evVars, expVars, carVars, retVars, tsVars,
                   mainVars>>

\* Step 2: ret_df = mk_rets.mk_ret_df(tic)
MainMkRetDf ==
    /\ pc = "fetched"
    /\ log' = Append(log, "mk_ret_df")
    /\ IF prc_rows = {} \/ ff_rows = {}
       THEN /\ pc' = "failed" /\ failed' = "mk_ret_df"
            /\ UNCHANGED <<rets_out, ret_df>>
       ELSE /\ LET df == SortByDate(prc_rows)
               IN  rets_out' = DropNa(JoinFf(df, PctChange(df), ff_rows, 1))
            /\ ret_df' = {rets_out'[i] : i \in 1..Len(rets_out')}
            /\ pc' = "rets" /\ failed' = failed
    /\ UNCHANGED <<update_csv, prc_rows, ff_rows, event_df, cars_df, car_out>>
    /\ UNCHANGED <<colVars, evVars, expVars, tsVars>>

\* Step 3: event_df = mk_events.mk_event_df(tic)
MainMkEventDf ==
    /\ pc = "rets"
    /\ log' = Append(log, "mk_event_df")
    /\ IF rec_rows = {}
       THEN /\ pc' = "failed" /\ failed' = "mk_event_df"
            /\ UNCHANGED <<ev_last, ev_res, event_df>>
       ELSE /\ \E last \in LastTables(rec_rows,
                               SortKeys({EventKey(r) : r \in rec_rows})) :
                   /\ ev_last' = last
                   /\ ev_res' = EventTable(last)
            /\ IF ev_res'.raised
               THEN /\ pc' = "failed" /\ failed' = "mk_event_df"
                    /\ UNCHANGED event_df
               ELSE /\ pc' = "events" /\ failed' = failed
                    /\ event_df' = ev_res'.table
    /\ UNCHANGED <<update_csv, rec_rows, ret_df, cars_df, car_out>>
    /\ UNCHANGED <<colVars, expVars, retVars, tsVars>>

\* Step 4: cars_df = mk_cars.mk_cars_df(ret_df, event_df).  What pandas does
\* with a table of no events is left open: the stage returns the empty
\* table or raises.
MainMkCarsDf ==
    /\ pc = "events"
    /\ log' = Append(log, "mk_cars_df")
    /\ IF Len(event_df) = 0
       THEN \/ /\ pc' = "cars" /\ failed' = failed
               /\ cars_df' = event_df /\ UNCHANGED event_df
            \/ /\ pc' = "failed" /\ failed' = "mk_cars_df"
               /\ UNCHANGED <<event_df, cars_df>>
       ELSE /\ event_df' =
                   [i \in 1..Len(event_df) |->
                       [event_id |-> event_df[i].event_id,
                        firm |-> event_df[i].firm,
                        event_date |-> event_df[i].event_date,
                        event_type |-> event_df[i].event_type,
                        car |-> CalcCar(event_df[i], ret_df, DefaultWindow)]]
            /\ cars_df' = event_df'
            /\ pc' = "cars" /\ failed' = failed
    /\ UNCHANGED <<update_csv, ret_df, car_out>>
    /\ UNCHANGED <<colVars, evVars, expVars, retVars, tsVars>>

\* Step 5: res = test_hypo.calc_tstats(cars_df), with the same provision
\* for a table of no events
MainCalcTstats ==
    /\ pc = "cars"
    /\ log' = Append(log, "calc_tstats")
    /\ event_cars' = cars_df
    /\ IF Len(cars_df) = 0
       THEN \/ /\ pc' = "done" /\ failed' = failed
               /\ tstat_out' = CalcTstats(cars_df)
            \/ /\ pc' = "failed" /\ failed' = "calc_tstats"
               /\ UNCHANGED tstat_out
       ELSE /\ tstat_out' = CalcTstats(cars_df)
            /\ pc' = "done" /\ failed' = failed
    /\ UNCHANGED update_csv
    /\ UNCHANGED <<colVars, evVars, expVars, carVars, retVars>>

InitMain ==
    /\ pc = "main"
    /\ update_csv \in UpdateCsvValues
    /\ log = <<>>
    /\ failed = ""
    /\ prc_rows \in MainPrcFiles
    /\ rec_rows \in MainRecFiles
    /\ ff_rows = MainFfFile
    /\ rets_out = None /\ ev_last = None /\ ev_res = None
    /\ ColIdle /\ ExpIdle /\ CarIdle /\ TsIdle

NextMain ==
    \/ MainGetData
    \/ MainSkipGetData
    \/ MainMkRetDf
    \/ MainMkEventDf
    \/ MainMkCarsDf
    \/ MainCalcTstats

SpecMain == InitMain /\ [][NextMain]_vars

\* The stages in the order of the claim
StageOrder ==
    (IF update_csv = "True" THEN <<"get_data">> ELSE <<>>)
        \o <<"mk_ret_df", "mk_event_df", "mk_cars_df", "calc_tstats">>

\* C14: the stages run in the fixed order, get_data only if update_csv is
\* True; a stage that fails is the last one called; a run that ends has
\* called them all.
C14_StageOrder ==
    /\ Len(log) <= Len(StageOrder)
    /\ \A i \in 1..Len(log) : log[i] = StageOrder[i]
    /\ failed # "" => (pc = "failed" /\ log # <<>> /\ log[Len(log)] = failed)
    /\ pc = "failed" => failed # ""
    /\ pc = "done" => (log = StageOrder /\ failed = "")

\* A run that ended in mk_event_df after the download and mk_ret_df.
C14_Witness ==
    /\ pc = "failed"
    /\ failed = "mk_event_df"
    /\ log = <<"get_data", "mk_ret_df", "mk_event_df">>
    /\ ev_res # None /\ ev_res.raised

\* A complete run without download, update_csv being neither True nor False.
C14_WitnessNoDownload ==
    /\ pc = "done"
    /\ update_csv = "1"
    /\ log = <<"mk_ret_df", "mk_event_df", "mk_cars_df", "calc_tstats">>
    /\ tstat_out # {}

-----------------------------------------------------------------------------
(* mk_cars.mk_cars_df and the tables of its caller *)

\* C15: mk_cars_df(ret_df, event_df) leaves the caller's tables as they
\* were: event_df keeps its columns and rows (no `car` column) and ret_df
\* its rows.
C15_InputsUnchanged ==
    [][(pc = "read" /\ pc' = "cars")
          => (event_df' = event_df /\ ret_df' = ret_df)]_vars

====
